---- MODULE Spec2Model ----
(***************************************************************************)
(* A model of UELogParser.js: the extraction of log statements from text,  *)
(* their decomposition, the de-duplicating fold into a LogInfo, the sort   *)
(* by count, the display filter and the control flow of run().             *)
(*                                                                         *)
(* Strings are sequences of tokens.  A token is a string of the alphabet   *)
(* below; "Log" is always a token of its own, and so is each of the        *)
(* characters the regular expressions single out ("[", "]", ":", "-",      *)
(* " ", "!").  Every other token is a run of word characters (\w+).        *)
(* A text is a sequence of lines, a line a sequence of tokens.             *)
(***************************************************************************)
EXTENDS Integers, Sequences, FiniteSets, TLC

VARIABLES
  settings,      \* UELogParserSettings.json: consolidate, writeToFile, filters
  fileList,      \* the files given to run, each with whether it can be read
  textContent,   \* the text loaded of each file
  logData,       \* the global LogInfo
  outputStream,  \* the write stream: "none", "open" or "ended"
  pc,            \* where the program is
  err,           \* the error thrown, "none" when none was
  idx,           \* the number of files parseText was called for
  lastInput,     \* the text the last call of parseText was given
  lastInfo,      \* the LogInfo the last call of parseText returned
  linesSeen,     \* the lines of all texts parsed that logRegex matches
  linesRead,     \* the lines of all texts parsed
  emitted,       \* the log lists run printed, one per LogInfo
  arg,           \* the argument of the function under test
  ret            \* what it returned

vars == <<settings, fileList, textContent, logData, outputStream, pc, err,
          idx, lastInput, lastInfo, linesSeen, linesRead, emitted,
          arg, ret>>

(***************************************************************************)
(* Bounds of the model.                                                    *)
(***************************************************************************)
MaxLines == 3
MaxFiles == 2
MaxSortLen == 5
MaxCount == 4

(***************************************************************************)
(* JavaScript values.                                                      *)
(***************************************************************************)
\* LET v == ... IN F(v), with v evaluated as an argument
With(v, F(_)) == F(v)

\* the least element of a set of positions, 0 when it is empty
First(S) == IF S = {} THEN 0 ELSE CHOOSE i \in S : \A k \in S : i <= k

\* the value undefined of a string-valued property
Undefined == <<"$undefined">>

\* the truthiness of a string-valued property: undefined and "" are falsy
Truthy(s) == s # Undefined /\ s # <<>>

\* \s of the regular expressions
WS == {" "}

\* the characters of a token that are not \w or \s
NonWord == {"[", "]", ":", "-", "!"}

\* String.prototype.toLowerCase on one token
LowerToken(t) ==
  CASE t = "Display" -> "display"
    [] t = "Warning" -> "warning"
    [] t = "Error" -> "error"
    [] t = "Verbose" -> "verbose"
    [] t = "Bad" -> "bad"
    [] t = "Log" -> "log"
    [] OTHER -> t

toLowerCase(s) == [i \in 1..Len(s) |-> LowerToken(s[i])]

\* the least j >= i with j past the end of s or s[j] outside S
SkipWhile(s, i, S) ==
  CHOOSE j \in i..(Len(s) + 1) :
    /\ (j = Len(s) + 1 \/ s[j] \notin S)
    /\ \A k \in i..(j - 1) : s[k] \in S

\* the least j >= i with j past the end of s or s[j] in Stop
SkipTo(s, i, Stop) ==
  CHOOSE j \in i..(Len(s) + 1) :
    /\ (j = Len(s) + 1 \/ s[j] \in Stop)
    /\ \A k \in i..(j - 1) : s[k] \notin Stop

\* String.prototype.trim
trim(s) ==
  With(SkipWhile(s, 1, WS), LAMBDA a :
    IF a > Len(s) THEN <<>>
    ELSE SubSeq(s, a, CHOOSE j \in a..Len(s) :
                        /\ s[j] \notin WS
                        /\ \A k \in (j + 1)..Len(s) : s[k] \in WS))

(***************************************************************************)
(* The three regular expressions.                                          *)
(***************************************************************************)
\* /Log.*:.*/gm on one line: the match starts at the first "Log" that has a
\* colon somewhere after it and runs to the end of the line; 0 when the
\* line has no match
logRegexStart(line) ==
  First({i \in 1..Len(line) :
           line[i] = "Log" /\ \E j \in (i + 1)..Len(line) : line[j] = ":"})

RECURSIVE matchLines(_, _)
\* input.match(logRegex): the matches of the lines of the text, in order.
\* The empty sequence stands for null, which match returns when no line
\* matches.
matchLines(input, i) ==
  IF i > Len(input) THEN <<>>
  ELSE With(logRegexStart(input[i]), LAMBDA st :
              IF st = 0 THEN <<>>
              ELSE <<SubSeq(input[i], st, Len(input[i]))>>)
       \o matchLines(input, i + 1)

\* /\[[^\[\]]*\]\[[^\[\]]*\]\s*(?=Log)/ tried at position i of s: the
\* position of the "Log" that follows the match, 0 when it fails at i
bracketPairAt(s, i) ==
  IF i > Len(s) \/ s[i] # "[" THEN 0
  ELSE With(SkipTo(s, i + 1, {"[", "]"}), LAMBDA a :
         IF a + 1 > Len(s) \/ s[a] # "]" \/ s[a + 1] # "[" THEN 0
         ELSE With(SkipTo(s, a + 2, {"[", "]"}), LAMBDA b :
                IF b > Len(s) \/ s[b] # "]" THEN 0
                ELSE With(SkipWhile(s, b + 1, WS), LAMBDA c :
                       IF c <= Len(s) /\ s[c] = "Log" THEN c ELSE 0)))

\* logText.replace(/\[[^\[\]]*\]\[[^\[\]]*\]\s*(?=Log)/, ""): the first
\* match is removed
stripPrefix(s) ==
  With([i \in 1..Len(s) |-> bracketPairAt(s, i)], LAMBDA at :
    With(First({i \in 1..Len(s) : at[i] # 0}), LAMBDA i :
      IF i = 0 THEN s
      ELSE SubSeq(s, 1, i - 1) \o SubSeq(s, at[i], Len(s))))

\* the position of the first colon after position i, 0 when there is none
firstColonAfter(s, i) ==
  With(SkipTo(s, i + 1, {":"}), LAMBDA j : IF j > Len(s) THEN 0 ELSE j)

\* logString.match(parseRegex)?.groups: the groups logCategory, type and
\* message of the leftmost match, or matched = FALSE.
\* Log(?<logCategory>[^:]+) : \s* ((?<type>[^:-\s]*) : (?!:) \s*)? (?<message>.*)
parseRegex(s) ==
  With([i \in 1..Len(s) |-> firstColonAfter(s, i)], LAMBDA colon :
    With(First({i \in 1..Len(s) : s[i] = "Log" /\ colon[i] > i + 1}),
         LAMBDA i :
      IF i = 0 THEN [matched |-> FALSE]
      ELSE With(SkipWhile(s, colon[i] + 1, WS), LAMBDA p :
             With(SkipTo(s, p, {":", "-"} \cup WS), LAMBDA t :
               IF /\ t <= Len(s)
                  /\ s[t] = ":"
                  /\ ~(t + 1 <= Len(s) /\ s[t + 1] = ":")
               THEN [matched |-> TRUE,
                     logCategory |-> SubSeq(s, i + 1, colon[i] - 1),
                     type |-> SubSeq(s, p, t - 1),
                     message |->
                       SubSeq(s, SkipWhile(s, t + 1, WS), Len(s))]
               ELSE [matched |-> TRUE,
                     logCategory |-> SubSeq(s, i + 1, colon[i] - 1),
                     type |-> Undefined,
                     message |-> SubSeq(s, p, Len(s))]))))

\* x?.trim()
optTrim(x) == IF x = Undefined THEN Undefined ELSE trim(x)

\* the LogObject parseText builds of one matched string (lines 128-150)
toLogObject(logString) ==
  With(parseRegex(logString), LAMBDA parsedLog :
    IF ~parsedLog.matched
    THEN [category |-> Undefined, type |-> Undefined,
          message |-> Undefined, logText |-> logString,
          count |-> 1, siblings |-> <<>>]
    ELSE [category |-> optTrim(parsedLog.logCategory),
          type |-> optTrim(parsedLog.type),
          message |-> optTrim(parsedLog.message),
          logText |-> logString,
          count |-> 1, siblings |-> <<>>])

\* info.type.match(/^[\w\s]*$/) === null
invalidType(info) ==
  Truthy(info.type) /\ \E i \in 1..Len(info.type) : info.type[i] \in NonWord

(***************************************************************************)
(* The lines the texts of the model are made of.                           *)
(***************************************************************************)
\* "[1][2]LogTemp: Display: Hello"
LineDisplay ==
  <<"[", "1", "]", "[", "2", "]", "Log", "Temp", ":", " ", "Display", ":",
    " ", "Hello">>

\* "LogCore: Warning: Init"
LineWarning == <<"Log", "Core", ":", " ", "Warning", ":", " ", "Init">>

\* "Log: x", which logRegex matches and parseRegex does not
LineNoCategory == <<"Log", ":", " ", "x">>

\* "LogA: x [1][2]Logy"
LineInner ==
  <<"Log", "A", ":", " ", "x", " ", "[", "1", "]", "[", "2", "]", "Log",
    "y">>

\* "LogA: x Logy"
LineInnerStripped == <<"Log", "A", ":", " ", "x", " ", "Log", "y">>

\* "Hello", which logRegex does not match
LineNoLog == <<"Hello">>

\* "LogCore: Bad!: m", whose type has a character outside [\w\s]
LineBadType == <<"Log", "Core", ":", " ", "Bad", "!", ":", " ", "m">>

Pool ==
  {LineDisplay, LineWarning, LineNoCategory, LineInner, LineInnerStripped,
   LineNoLog, LineBadType}

(***************************************************************************)
(* Objects used as maps (categories, typeCounts): functions of their keys. *)
(***************************************************************************)
\* a property key is a string
Key(w) == <<w>>

\* the map with one more key, or one key changed
Put(m, k, v) == [x \in DOMAIN m \cup {k} |-> IF x = k THEN v ELSE m[x]]

\* m[k] where an absent key reads as 0
Get0(m, k) == IF k \in DOMAIN m THEN m[k] ELSE 0

RECURSIVE SumOver(_, _)
SumOver(m, D) ==
  IF D = {} THEN 0
  ELSE With(CHOOSE x \in D : TRUE, LAMBDA k : m[k] + SumOver(m, D \ {k}))

\* Object.values(m).reduce((aggr, next) => aggr + next, 0)
sumValues(m) == SumOver(m, DOMAIN m)

\* typeCounts as every LogInfo starts with them
initialTypeCounts ==
  [k \in {Key("errors"), Key("warnings"), Key("verbose"), Key("general")}
     |-> 0]

\* the empty object {}
emptyObject == [k \in {} |-> 0]

\* the global logData as the module creates it; general is the property
\* logInfo.general, which no LogInfo is created with
initialLogData ==
  [totalCount |-> 0, uniqueList |-> <<>>, categories |-> emptyObject,
   typeCounts |-> initialTypeCounts, general |-> "undefined",
   dataList |-> <<>>]

(***************************************************************************)
(* processParsedLog.                                                       *)
(***************************************************************************)
\* a LogInfo whose totalCount is set to, not raised by, the length of
\* matchArray when consolidating
initLogInfoOverwriting(ld, matchArray, consolidate) ==
  [totalCount |-> Len(matchArray),
   uniqueList |-> IF consolidate THEN ld.uniqueList ELSE <<>>,
   categories |-> IF consolidate THEN ld.categories
                  ELSE [k \in {Key("general")} |-> 0],
   typeCounts |-> IF consolidate THEN ld.typeCounts ELSE initialTypeCounts,
   general |-> IF consolidate THEN ld.general ELSE "undefined"]

\* the LogInfo processParsedLog works on: logData itself with totalCount
\* raised when consolidating, a new LogInfo otherwise
initLogInfo(ld, matchArray, consolidate) ==
  IF consolidate
  THEN [totalCount |-> ld.totalCount + Len(matchArray),
        uniqueList |-> ld.uniqueList, categories |-> ld.categories,
        typeCounts |-> ld.typeCounts, general |-> ld.general]
  ELSE [totalCount |-> Len(matchArray), uniqueList |-> <<>>,
        categories |-> [k \in {Key("general")} |-> 0],
        typeCounts |-> initialTypeCounts, general |-> "undefined"]

\* uniqueList.findIndex(data => data.logText.replace(...) === info.logText),
\* 0 for -1
findIndex(uniqueList, info) ==
  First({i \in 1..Len(uniqueList) :
           stripPrefix(uniqueList[i].logText) = info.logText})

\* the unique list after one LogObject is folded in
foldUnique(uniqueList, info) ==
  With(findIndex(uniqueList, info), LAMBDA firstIndex :
    IF firstIndex = 0 THEN Append(uniqueList, info)
    ELSE [uniqueList EXCEPT
            ![firstIndex].count = @ + 1,
            ![firstIndex].siblings = Append(@, info.logText)])

\* the category counters after one LogObject
countCategory(logInfo, info) ==
  IF info.category \in DOMAIN logInfo.categories
  THEN [logInfo EXCEPT !.categories[info.category] = @ + 1]
  ELSE IF Truthy(info.category)
       THEN [logInfo EXCEPT
               !.categories = Put(logInfo.categories, info.category, 1)]
       ELSE [logInfo EXCEPT !.general = "NaN"]

RECURSIVE foldLoop(_, _, _)
\* the loop over matchArray; logger.error, which the validation calls,
\* reads the undeclared printToConsole and throws a ReferenceError
foldLoop(logInfo, matchArray, i) ==
  IF i > Len(matchArray) THEN [logInfo |-> logInfo, threw |-> FALSE]
  ELSE With(countCategory(
              [logInfo EXCEPT
                 !.uniqueList = foldUnique(logInfo.uniqueList, matchArray[i])],
              matchArray[i]), LAMBDA next :
         IF invalidType(matchArray[i]) THEN [logInfo |-> next, threw |-> TRUE]
         ELSE foldLoop(next, matchArray, i + 1))

\* the bucket of typeCounts one unique entry is counted in; Undefined when
\* it is counted in none
typeBucket(info) ==
  IF info.type = <<"Error">> THEN Key("errors")
  ELSE IF info.type = <<"Warning">> THEN Key("warnings")
  ELSE IF Truthy(info.type) THEN toLowerCase(trim(info.type))
  ELSE Undefined

RECURSIVE tallyTypes(_, _, _)
\* the loop over the unique list that counts the types
tallyTypes(typeCounts, uniqueList, i) ==
  IF i > Len(uniqueList) THEN typeCounts
  ELSE With(typeBucket(uniqueList[i]), LAMBDA b :
         tallyTypes(
           IF b = Undefined THEN typeCounts
           ELSE Put(typeCounts, b, Get0(typeCounts, b) + 1),
           uniqueList, i + 1))

\* the warning "type counts do not total" is not logged
typeCountsTotal(logInfo) ==
  Len(logInfo.uniqueList) = sumValues(logInfo.typeCounts)

\* logData after processParsedLog worked on logInfo
storeLogInfo(ld, logInfo, fileName, consolidate) ==
  IF consolidate
  THEN [ld EXCEPT !.totalCount = logInfo.totalCount,
                  !.uniqueList = logInfo.uniqueList,
                  !.categories = logInfo.categories,
                  !.typeCounts = logInfo.typeCounts,
                  !.general = logInfo.general]
  ELSE [ld EXCEPT !.dataList =
          Append(@, [totalCount |-> logInfo.totalCount,
                     uniqueList |-> logInfo.uniqueList,
                     categories |-> logInfo.categories,
                     typeCounts |-> logInfo.typeCounts,
                     general |-> logInfo.general,
                     sourceFile |-> fileName])]

\* processParsedLog(matchArray, fileName) on the global logData: the new
\* logData, the LogInfo returned, and whether it threw instead
processParsedLog(ld, matchArray, fileName, consolidate) ==
  With(foldLoop(initLogInfo(ld, matchArray, consolidate), matchArray, 1),
       LAMBDA folded :
    IF folded.threw
    THEN [logData |-> IF consolidate
                      THEN storeLogInfo(ld, folded.logInfo, fileName, TRUE)
                      ELSE ld,
          logInfo |-> folded.logInfo, threw |-> TRUE]
    ELSE With([folded.logInfo EXCEPT
                 !.typeCounts = tallyTypes(@, folded.logInfo.uniqueList, 1)],
              LAMBDA tallied :
           [logData |-> storeLogInfo(ld, tallied, fileName, consolidate),
            logInfo |-> tallied, threw |-> FALSE]))

(***************************************************************************)
(* parseText.                                                              *)
(***************************************************************************)
\* parseText(input, fileName): input.match returns null when nothing
\* matches, and matchArray.length then throws a TypeError
parseText(ld, input, fileName, consolidate) ==
  With(matchLines(input, 1), LAMBDA matches :
    IF matches = <<>>
    THEN [logData |-> ld, logInfo |-> initialLogData, threw |-> TRUE,
          error |-> "TypeError: matchArray is null"]
    ELSE With(processParsedLog(
                ld, [i \in 1..Len(matches) |-> toLogObject(matches[i])],
                fileName, consolidate), LAMBDA r :
           [logData |-> r.logData, logInfo |-> r.logInfo, threw |-> r.threw,
            error |-> IF r.threw
                      THEN "ReferenceError: printToConsole is not defined"
                      ELSE "none"]))

(***************************************************************************)
(* sortLogsByCount.                                                        *)
(***************************************************************************)
\* a comparer that orders the other way round
comparerDescending(a, b) == a >= b

\* the default comparer of partition and quickSort
comparer(a, b) == a <= b

\* [list[i], list[j]] = [list[j], list[i]]
swap(list, i, j) == [list EXCEPT ![i] = list[j], ![j] = list[i]]

RECURSIVE partitionLoop(_, _, _, _)
\* the loop of partition, with list[end] as the pivot
partitionLoop(list, i, end, pIndex) ==
  IF i >= end THEN [list |-> swap(list, pIndex, end), pIndex |-> pIndex]
  ELSE IF comparer(list[i], list[end])
       THEN partitionLoop(swap(list, i, pIndex), i + 1, end, pIndex + 1)
       ELSE partitionLoop(list, i + 1, end, pIndex)

\* partition(list, start, end): the list with the pivot in its sorted
\* position, and that position
partition(list, start, end) == partitionLoop(list, start, end, start)

RECURSIVE quickSort(_, _, _)
\* quickSort(list, start, end), which sorts in place: the list afterwards
quickSort(list, start, end) ==
  IF start >= end THEN list
  ELSE With(partition(list, start, end), LAMBDA p :
         quickSort(quickSort(p.list, start, p.pIndex - 1),
                   p.pIndex + 1, end))

RECURSIVE groupByCount(_, _, _, _)
\* the loop that collects the counts seen, in the order they are first
\* seen, and the logs of each count
groupByCount(uniqueList, i, numberArray, countMap) ==
  IF i > Len(uniqueList)
  THEN [numberArray |-> numberArray, countMap |-> countMap]
  ELSE With(uniqueList[i], LAMBDA log :
         IF \A k \in 1..Len(numberArray) : numberArray[k] # log.count
         THEN groupByCount(uniqueList, i + 1,
                           Append(numberArray, log.count),
                           Put(countMap, log.count, <<log>>))
         ELSE groupByCount(uniqueList, i + 1, numberArray,
                           [countMap EXCEPT ![log.count] = Append(@, log)]))

RECURSIVE concatGroups(_, _, _)
\* newArray = newArray.concat(countMap[count]) for each count
concatGroups(numberArray, countMap, i) ==
  IF i > Len(numberArray) THEN <<>>
  ELSE countMap[numberArray[i]] \o concatGroups(numberArray, countMap, i + 1)

\* sortLogsByCount(uniqueList): the array returned.  reduce without an
\* initial value throws a TypeError on an empty list.
sortLogsByCount(uniqueList) ==
  IF uniqueList = <<>>
  THEN [threw |-> TRUE, list |-> <<>>]
  ELSE With(groupByCount(uniqueList, 1, <<>>, emptyObject), LAMBDA g :
         [threw |-> FALSE,
          list |-> concatGroups(
                     quickSort(g.numberArray, 1, Len(g.numberArray)),
                     g.countMap, 1)])

(***************************************************************************)
(* filterLog and filterLogList.                                            *)
(***************************************************************************)
\* one of settings.display.filters.type and .category against a value
filteredOut(filter, value) ==
  /\ ~filter.ignore
  /\ \/ (value = Undefined /\ ~filter.allowUndefined)
     \/ value \notin filter.whitelist
     \/ value \in filter.blacklist

\* filterLog(log): TRUE when the log is not to be displayed
filterLog(log, filters) ==
  \/ filteredOut(filters.type, log.type)
  \/ filteredOut(filters.category, log.category)

\* the key log.category makes of an object: undefined reads "undefined"
propertyKey(value) == IF value = Undefined THEN Key("undefined") ELSE value

\* newInfo before the loop of filterLogList
initialFiltered ==
  [totalCount |-> 0, uniqueList |-> <<>>, categories |-> emptyObject,
   typeCounts |-> initialTypeCounts]

\* what filterLogList does with one log that filterLog lets through, short
\* of the types that are neither "Error" nor "Warning"
keepLog(newInfo, log) ==
  [totalCount |-> newInfo.totalCount + log.count,
   uniqueList |-> Append(newInfo.uniqueList, log),
   categories |-> Put(newInfo.categories, propertyKey(log.category),
                      Get0(newInfo.categories, propertyKey(log.category))
                        + log.count),
   typeCounts |->
     IF log.type = <<"Error">>
     THEN [newInfo.typeCounts EXCEPT ![Key("errors")] = @ + 1]
     ELSE IF log.type = <<"Warning">>
          THEN [newInfo.typeCounts EXCEPT ![Key("warnings")] = @ + 1]
          ELSE newInfo.typeCounts]

\* the branch of filterLogList that reads logInfo, which is not declared in
\* filterLogList or globally: a ReferenceError
readsUndeclaredLogInfo(log) ==
  log.type # <<"Error">> /\ log.type # <<"Warning">> /\ Truthy(log.type)

RECURSIVE filterLoop(_, _, _, _)
filterLoop(logList, i, newInfo, filters) ==
  IF i > Len(logList) THEN [threw |-> FALSE, newInfo |-> newInfo]
  ELSE IF filterLog(logList[i], filters)
       THEN filterLoop(logList, i + 1, newInfo, filters)
       ELSE IF readsUndeclaredLogInfo(logList[i])
            THEN [threw |-> TRUE,
                  newInfo |-> [newInfo EXCEPT
                     !.totalCount = @ + logList[i].count,
                     !.uniqueList = Append(@, logList[i])]]
            ELSE filterLoop(logList, i + 1, keepLog(newInfo, logList[i]),
                            filters)

\* filterLogList(logList): the LogInfo returned, or threw
filterLogList(logList, filters) ==
  filterLoop(logList, 1, initialFiltered, filters)

(***************************************************************************)
(* Inputs.                                                                 *)
(***************************************************************************)
\* the texts of at most n lines
Texts(n) == UNION {[1..k -> Pool] : k \in 0..n}

RECURSIVE TextLists(_, _)
\* the lists of n texts of at most budget lines together
TextLists(n, budget) ==
  IF n = 0 THEN {<<>>}
  ELSE UNION {{<<t>> \o rest : rest \in TextLists(n - 1, budget - Len(t))} :
                t \in Texts(budget)}

\* settings.display.filters that filter nothing
NoFilter ==
  [type |-> [ignore |-> TRUE, allowUndefined |-> TRUE,
             whitelist |-> {}, blacklist |-> {}],
   category |-> [ignore |-> TRUE, allowUndefined |-> TRUE,
                 whitelist |-> {}, blacklist |-> {}]]

\* category.blacklist = ["Temp"]
CategoryFilter ==
  [type |-> [ignore |-> TRUE, allowUndefined |-> TRUE,
             whitelist |-> {}, blacklist |-> {}],
   category |-> [ignore |-> FALSE, allowUndefined |-> FALSE,
                 whitelist |-> {<<"Temp">>, <<"Core">>, <<"A">>},
                 blacklist |-> {<<"Temp">>}]]

\* type.whitelist = ["Warning", "Error"]
TypeFilter ==
  [type |-> [ignore |-> FALSE, allowUndefined |-> TRUE,
             whitelist |-> {<<"Warning">>, <<"Error">>}, blacklist |-> {}],
   category |-> [ignore |-> TRUE, allowUndefined |-> TRUE,
                 whitelist |-> {}, blacklist |-> {}]]

FilterConfigs == {NoFilter, CategoryFilter, TypeFilter}

\* the lines of a text that logRegex matches
candidateLines(input) ==
  Cardinality({i \in 1..Len(input) : logRegexStart(input[i]) # 0})

(***************************************************************************)
(* The fold: parseText called for one text after another.                  *)
(***************************************************************************)
InitFold ==
  /\ settings \in [consolidate : BOOLEAN, writeToFile : {FALSE},
                   filters : {NoFilter}]
  /\ fileList = <<>>
  /\ textContent = <<>>
  /\ logData = initialLogData
  /\ outputStream = "none"
  /\ pc = "fold"
  /\ err = "none"
  /\ idx = 0
  /\ lastInput = <<>>
  /\ lastInfo = initialLogData
  /\ linesSeen = 0
  /\ linesRead = 0
  /\ emitted = <<>>
  /\ arg = <<>>
  /\ ret = <<>>

\* parseText(input, fileName) for the next text
FoldParse ==
  /\ pc = "fold"
  /\ \E n \in 0..(MaxLines - linesRead) : \E input \in [1..n -> Pool] :
       /\ \E r \in {parseText(logData, input, idx + 1, settings.consolidate)} :
            /\ logData' = r.logData
            /\ lastInfo' = r.logInfo
            /\ err' = r.error
            /\ pc' = IF r.threw THEN "threw" ELSE "fold"
       /\ lastInput' = input
       /\ linesSeen' = linesSeen + candidateLines(input)
       /\ linesRead' = linesRead + Len(input)
  /\ idx' = idx + 1
  /\ UNCHANGED <<settings, fileList, textContent, outputStream, emitted,
                 arg, ret>>

NextFold == FoldParse

SpecFold == InitFold /\ [][NextFold]_vars

(***************************************************************************)
(* Properties of the fold.                                                 *)
(***************************************************************************)
\* the last call of parseText returned
parsed == pc = "fold" /\ idx > 0

\* the raw texts of the records the last call of parseText folded
rawTexts == matchLines(lastInput, 1)

\* the last call folded into a LogInfo that was empty before it
intoEmpty == ~settings.consolidate \/ idx = 1

RECURSIVE sumCounts(_, _)
\* the sum of count over the entries from the i-th on
sumCounts(uniqueList, i) ==
  IF i > Len(uniqueList) THEN 0
  ELSE uniqueList[i].count + sumCounts(uniqueList, i + 1)

\* the unique entries of a category
entriesOf(uniqueList, c) ==
  Cardinality({i \in 1..Len(uniqueList) : uniqueList[i].category = c})

\* C1: N records with the same raw text L, folded into an empty report, make
\* one unique entry of count N with N - 1 siblings, each equal to L
C1_DedupIdempotence ==
  (/\ parsed
   /\ intoEmpty
   /\ \A i \in 1..Len(rawTexts) : rawTexts[i] = rawTexts[1])
  => /\ Len(lastInfo.uniqueList) = 1
     /\ lastInfo.uniqueList[1].count = Len(rawTexts)
     /\ lastInfo.uniqueList[1].siblings
          = [i \in 1..(Len(rawTexts) - 1) |-> rawTexts[1]]

\* C2: two raw texts that differ only in a bracket pair right before "Log",
\* folded into an empty report in either order, make one unique entry of
\* count 2
C2_StrippedPrefixEquivalence ==
  (/\ parsed
   /\ intoEmpty
   /\ Len(rawTexts) = 2
   /\ rawTexts[1] # rawTexts[2]
   /\ \/ stripPrefix(rawTexts[1]) = rawTexts[2]
      \/ stripPrefix(rawTexts[2]) = rawTexts[1])
  => /\ Len(lastInfo.uniqueList) = 1
     /\ lastInfo.uniqueList[1].count = 2

\* C3: after the tally the values of typeCounts sum to the number of unique
\* entries
C3_TypeCountsTotal == parsed => typeCountsTotal(lastInfo)

\* C4: categoryCounts[c] is the number of unique entries of category c, and
\* its general counter the number of unique entries without a category
C4_CategoryCounts ==
  parsed =>
    /\ \A i \in 1..Len(lastInfo.uniqueList) :
         lastInfo.uniqueList[i].category # Undefined =>
           Get0(lastInfo.categories, lastInfo.uniqueList[i].category)
             = entriesOf(lastInfo.uniqueList, lastInfo.uniqueList[i].category)
    /\ Get0(lastInfo.categories, Key("general"))
         = entriesOf(lastInfo.uniqueList, Undefined)

\* C9: totalCount of a report is the number of candidate lines processed
\* into it: those of the one file, or of all files when consolidating; each
\* of them is counted by exactly one unique entry
C9_TotalCount ==
  parsed =>
    /\ lastInfo.totalCount
         = IF settings.consolidate THEN linesSeen
           ELSE candidateLines(lastInput)
    /\ lastInfo.totalCount = sumCounts(lastInfo.uniqueList, 1)
    /\ settings.consolidate => logData.totalCount = lastInfo.totalCount
    /\ \A k \in 1..Len(logData.dataList) :
         logData.dataList[k].totalCount
           = sumCounts(logData.dataList[k].uniqueList, 1)

\* two files were consolidated, with a line that is no candidate and a
\* candidate that was folded into an earlier entry
C9_Witness ==
  /\ parsed
  /\ settings.consolidate
  /\ idx = 2
  /\ linesSeen < linesRead
  /\ Len(lastInfo.uniqueList) < lastInfo.totalCount

(***************************************************************************)
(* sortLogsByCount on the unique lists a fold can leave.                   *)
(***************************************************************************)
\* "LogTemp: <i>", a line of its own for each i
SortLine(i) == <<"Log", "Temp", ":", " ", ToString(i)>>

\* the unique entry that c lines SortLine(i) are folded into
SortEntry(i, c) ==
  [toLogObject(SortLine(i)) EXCEPT
     !.count = c, !.siblings = [k \in 1..(c - 1) |-> SortLine(i)]]

\* the unique list of the entries with the counts cs
SortInput(cs) == [i \in 1..Len(cs) |-> SortEntry(i, cs[i])]

InitSort ==
  /\ settings = [consolidate |-> TRUE, writeToFile |-> FALSE,
                 filters |-> NoFilter]
  /\ fileList = <<>>
  /\ textContent = <<>>
  /\ logData = initialLogData
  /\ outputStream = "none"
  /\ pc = "sort"
  /\ err = "none"
  /\ idx = 0
  /\ lastInput = <<>>
  /\ lastInfo = initialLogData
  /\ linesSeen = 0
  /\ linesRead = 0
  /\ emitted = <<>>
  /\ \E n \in 1..MaxSortLen :
       \E cs \in [1..n -> 1..MaxCount] : arg = SortInput(cs)
  /\ ret = <<>>

Sort ==
  /\ pc = "sort"
  /\ ret' = sortLogsByCount(arg)
  /\ pc' = "sorted"
  /\ UNCHANGED <<settings, fileList, textContent, logData, outputStream, err,
                 idx, lastInput, lastInfo, linesSeen, linesRead, emitted,
                 arg>>

NextSort == Sort

SpecSort == InitSort /\ [][NextSort]_vars

\* how often e occurs in the list
occurrences(list, e) == Cardinality({i \in 1..Len(list) : list[i] = e})

\* the first position of e in the list
positionIn(list, e) == First({i \in 1..Len(list) : list[i] = e})

\* C6: sortLogsByCount returns a permutation of its input with count
\* non-decreasing over adjacent entries, and entries of equal count in the
\* order they have in the input
C6_SortCorrect ==
  pc = "sorted" =>
    /\ ~ret.threw
    /\ Len(ret.list) = Len(arg)
    /\ \A i \in 1..Len(arg) :
         occurrences(ret.list, arg[i]) = occurrences(arg, arg[i])
    /\ \A i \in 1..(Len(ret.list) - 1) :
         ret.list[i].count <= ret.list[i + 1].count
    /\ \A i, j \in 1..Len(ret.list) :
         (i < j /\ ret.list[i].count = ret.list[j].count)
           => positionIn(arg, ret.list[i]) < positionIn(arg, ret.list[j])

\* a list was sorted that was out of order and had entries of equal count
\* on both sides of an entry of another count
C6_Witness ==
  /\ pc = "sorted"
  /\ ret.list # arg
  /\ \E i, j, k \in 1..Len(arg) :
       /\ i < j /\ j < k
       /\ arg[i].count = arg[k].count
       /\ arg[j].count < arg[i].count

(***************************************************************************)
(* filterLogList on the sorted unique lists of one text.                   *)
(***************************************************************************)
\* the sorted unique list of one consolidated text
sortedListOf(input) ==
  sortLogsByCount(parseText(initialLogData, input, 1, TRUE).logData.uniqueList)
    .list

FilterInputs ==
  {sortedListOf(input) :
     input \in {t \in Texts(MaxLines) :
                  ~parseText(initialLogData, t, 1, TRUE).threw}}

InitFilter ==
  /\ settings \in [consolidate : {TRUE}, writeToFile : {FALSE},
                   filters : FilterConfigs]
  /\ fileList = <<>>
  /\ textContent = <<>>
  /\ logData = initialLogData
  /\ outputStream = "none"
  /\ pc = "filter"
  /\ err = "none"
  /\ idx = 0
  /\ lastInput = <<>>
  /\ lastInfo = initialLogData
  /\ linesSeen = 0
  /\ linesRead = 0
  /\ emitted = <<>>
  /\ arg \in FilterInputs
  /\ ret = <<>>

Filter ==
  /\ pc = "filter"
  /\ ret' = filterLogList(arg, settings.filters)
  /\ pc' = "filtered"
  /\ UNCHANGED <<settings, fileList, textContent, logData, outputStream, err,
                 idx, lastInput, lastInfo, linesSeen, linesRead, emitted,
                 arg>>

NextFilter == Filter

SpecFilter == InitFilter /\ [][NextFilter]_vars

\* filterLog lets the log through
displayed(log) == ~filterLog(log, settings.filters)

\* C5: filterLogList returns, with the entries filterLog does not exclude,
\* in the order of the input, and with totalCount the sum of their counts
C5_FilterCorrect ==
  pc = "filtered" =>
    /\ ~ret.threw
    /\ ret.newInfo.uniqueList = SelectSeq(arg, displayed)
    /\ ret.newInfo.totalCount = sumCounts(SelectSeq(arg, displayed), 1)

(***************************************************************************)
(* The program: the write stream, run(fileList) and the catch around it.   *)
(***************************************************************************)
\* the file lists of at most MaxFiles files, each readable or not
FileLists == UNION {[1..n -> [exists : BOOLEAN]] : n \in 0..MaxFiles}

\* the first file of the list that cannot be read, 0 when all can
firstMissing == First({i \in 1..Len(fileList) : ~fileList[i].exists})

Init ==
  /\ settings \in [consolidate : BOOLEAN, writeToFile : BOOLEAN,
                   filters : FilterConfigs]
  /\ fileList \in FileLists
  /\ textContent = <<>>
  /\ logData = initialLogData
  /\ outputStream = IF settings.writeToFile THEN "open" ELSE "none"
  /\ pc = "start"
  /\ err = "none"
  /\ idx = 0
  /\ lastInput = <<>>
  /\ lastInfo = initialLogData
  /\ linesSeen = 0
  /\ linesRead = 0
  /\ emitted = <<>>
  /\ arg = <<>>
  /\ ret = <<>>

\* run with no files: the warning "No files found" and return
RunNoFiles ==
  /\ pc = "start"
  /\ fileList = <<>>
  /\ pc' = "returned"
  /\ UNCHANGED <<settings, fileList, textContent, logData, outputStream, err,
                 idx, lastInput, lastInfo, linesSeen, linesRead, emitted,
                 arg, ret>>

\* loadText(fileList): readFileSync of every file in turn, which throws at
\* the first file that cannot be read
LoadText ==
  /\ pc = "start"
  /\ fileList # <<>>
  /\ IF firstMissing # 0
     THEN /\ textContent' \in TextLists(firstMissing - 1, MaxLines)
          /\ err' = "Error: ENOENT"
          /\ pc' = "threw"
     ELSE /\ textContent' \in TextLists(Len(fileList), MaxLines)
          /\ err' = err
          /\ pc' = "parse"
  /\ UNCHANGED <<settings, fileList, logData, outputStream, idx, lastInput,
                 lastInfo, linesSeen, linesRead, emitted, arg, ret>>

\* one round of the loop over fileList: parseText of the file that exists,
\* logger.error, which throws a ReferenceError, of the file that does not
ParseFile ==
  /\ pc = "parse"
  /\ idx < Len(fileList)
  /\ idx' = idx + 1
  /\ IF fileList[idx + 1].exists
     THEN /\ \E r \in {parseText(logData, textContent[idx + 1], idx + 1,
                                 settings.consolidate)} :
               /\ logData' = r.logData
               /\ lastInfo' = r.logInfo
               /\ err' = r.error
               /\ pc' = IF r.threw THEN "threw" ELSE "parse"
          /\ lastInput' = textContent[idx + 1]
          /\ linesSeen' = linesSeen + candidateLines(textContent[idx + 1])
          /\ linesRead' = linesRead + Len(textContent[idx + 1])
     ELSE /\ err' = "ReferenceError: printToConsole is not defined"
          /\ pc' = "threw"
          /\ UNCHANGED <<logData, lastInfo, lastInput, linesSeen, linesRead>>
  /\ UNCHANGED <<settings, fileList, textContent, outputStream, emitted,
                 arg, ret>>

\* the unique lists of the LogInfos, each sorted
sortedDataList(dataList) ==
  [k \in 1..Len(dataList) |->
     [dataList[k] EXCEPT !.uniqueList = sortLogsByCount(@).list]]

\* after the loop: the unique list of logData, or of every LogInfo of
\* dataList, is replaced by what sortLogsByCount returns
SortLists ==
  /\ pc = "parse"
  /\ idx = Len(fileList)
  /\ IF settings.consolidate
     THEN IF sortLogsByCount(logData.uniqueList).threw
          THEN /\ err' = "TypeError: Reduce of empty array"
               /\ pc' = "threw"
               /\ logData' = logData
          ELSE /\ logData' =
                    [logData EXCEPT !.uniqueList = sortLogsByCount(@).list]
               /\ err' = err
               /\ pc' = "report"
     ELSE IF \E k \in 1..Len(logData.dataList) :
               sortLogsByCount(logData.dataList[k].uniqueList).threw
          THEN /\ err' = "TypeError: Reduce of empty array"
               /\ pc' = "threw"
               /\ logData' = logData
          ELSE /\ logData' =
                    [logData EXCEPT !.dataList = sortedDataList(@)]
               /\ err' = err
               /\ pc' = "report"
  /\ UNCHANGED <<settings, fileList, textContent, outputStream, idx,
                 lastInput, lastInfo, linesSeen, linesRead, emitted, arg, ret>>

\* the list in reverse
reverse(list) == [i \in 1..Len(list) |-> list[Len(list) + 1 - i]]

\* the report: of filterLogList(logData.uniqueList), last entry first, when
\* consolidating; of every LogInfo of dataList, the entries filterLog lets
\* through, first entry first, otherwise
Report ==
  /\ pc = "report"
  /\ IF settings.consolidate
     THEN \E data \in {filterLogList(logData.uniqueList, settings.filters)} :
            IF data.threw
            THEN /\ err' = "ReferenceError: logInfo is not defined"
                 /\ pc' = "threw"
                 /\ emitted' = emitted
            ELSE /\ emitted' = <<reverse(data.newInfo.uniqueList)>>
                 /\ err' = err
                 /\ pc' = "returned"
     ELSE /\ emitted' = [k \in 1..Len(logData.dataList) |->
                           SelectSeq(logData.dataList[k].uniqueList, displayed)]
          /\ err' = err
          /\ pc' = "returned"
  /\ UNCHANGED <<settings, fileList, textContent, logData, outputStream, idx,
                 lastInput, lastInfo, linesSeen, linesRead, arg, ret>>

\* catch(err): the stream is ended when it is writable, and err is thrown
\* again
Catch ==
  /\ pc = "threw"
  /\ outputStream' = IF outputStream = "open" THEN "ended" ELSE outputStream
  /\ pc' = "rethrown"
  /\ UNCHANGED <<settings, fileList, textContent, logData, err, idx,
                 lastInput, lastInfo, linesSeen, linesRead, emitted, arg, ret>>

Next ==
  \/ RunNoFiles
  \/ LoadText
  \/ ParseFile
  \/ SortLists
  \/ Report
  \/ Catch

Spec == Init /\ [][Next]_vars

\* the program is over: run returned, or the error it threw was thrown again
exited == pc \in {"returned", "rethrown"}

\* C7: a file of the list that cannot be read does not abort the run, and
\* every other file of the list is parsed
C7_MissingSourceSkipped ==
  firstMissing # 0 =>
    /\ err # "Error: ENOENT"
    /\ exited => (pc = "returned" /\ idx = Len(fileList))

\* C8: parseText completes for a text without a line that logRegex matches,
\* and run goes on
C8_NoCandidatesNoError ==
  (idx > 0 /\ candidateLines(lastInput) = 0) =>
    /\ err # "TypeError: matchArray is null"
    /\ pc \notin {"threw", "rethrown"}

\* C10: when writing to a file, the stream is ended on every way out
C10_SinkClosed ==
  (settings.writeToFile /\ exited) => outputStream = "ended"

\* C11: in both modes, of two entries a report of run lists one after the
\* other, the earlier has a count at least that of the later (highest count
\* first)
C11_HighestCountFirst ==
  pc = "returned" =>
    \A k \in 1..Len(emitted) :
      \A i \in 1..(Len(emitted[k]) - 1) :
        emitted[k][i].count >= emitted[k][i + 1].count

====
